---- MODULE Spec2Model ----
(***************************************************************************)
(* Model of camcl/TypeAnnotateCheck.                                       *)
(*                                                                         *)
(*   mypycheck.py  the %%mypy cell magic `typechecker(line, cell)`, one    *)
(*                 action per statement, position held in pc.              *)
(*   mytuples.py   the demo script: two identical definition/execution     *)
(*                 blocks of my_tuple0, one action per statement,          *)
(*                 position held in spc.                                   *)
(*                                                                         *)
(* A Python str is a sequence of one-character strings, so that splitting  *)
(* and substring search are computed, not assumed.                         *)
(***************************************************************************)
EXTENDS Integers, Sequences, FiniteSets

VARIABLES
    \* ---- mypycheck.py: one invocation of typechecker(line, cell)
    pc,             \* statement about to run: "idle", "L12".."L31", "done", "raised"
    line,           \* parameter `line`
    cell,           \* parameter `cell`
    imported,       \* outcome of `from mypy.api import run`: "pending", "ok", "ImportError"
    importAttempts, \* number of times the import statement ran in this invocation
    args,           \* local `args`
    argsBound,      \* TRUE once `args` has been assigned
    runCalls,       \* argument lists `run` was called with in this invocation
    result,         \* local `result`: <<stdout, stderr, status>>, <<>> while unbound
    stdout,         \* arguments of the print calls of this invocation, in order
    ret,            \* value returned by this invocation
    \* ---- mytuples.py: the script
    spc,            \* statement about to run: "L9", "L13", ..., "L25", "end"
    fn,             \* global my_tuple0: [defined, annotations, block]
    t47_5,          \* global t47_5, <<>> while unbound
    scriptOut,      \* arguments of the script's print calls, in order
    applied         \* last call of my_tuple0 made on arbitrary integers

magicVars == <<pc, line, cell, imported, importAttempts, args, argsBound,
               runCalls, result, stdout, ret>>
demoVars  == <<spc, fn, t47_5, scriptOut, applied>>
vars      == <<pc, line, cell, imported, importAttempts, args, argsBound,
               runCalls, result, stdout, ret, spc, fn, t47_5, scriptOut, applied>>

----------------------------------------------------------------------------
(* Bounds of the model *)

\* longest enumerated `line`
MaxLineLen == 3
\* integers passed to my_tuple0 range over -MaxInt..MaxInt
MaxInt == 3

----------------------------------------------------------------------------
(* String literals of mypycheck.py *)

Flag == <<"-", "c">>
MissingMsgNoHint == <<"'", "m", "y", "p", "y", "'", " ", "n", "o", "t", " ", "i", "n", "s", "t", "a", "l", "l", "e", "d", ".">>
MissingMsg == <<"'", "m", "y", "p", "y", "'", " ", "n", "o", "t", " ", "i", "n", "s", "t", "a", "l", "l", "e", "d", ".", " ", "D", "i", "d", " ", "y", "o", "u", " ", "r", "u", "n", " ", "'", "p", "i", "p", " ", "i", "n", "s", "t", "a", "l", "l", " ", "m", "y", "p", "y", "'", "?">>
InfoHeader == <<"\n", "T", "y", "p", "e", " ", "c", "h", "e", "c", "k", "i", "n", "g", " ", "r", "e", "p", "o", "r", "t", ":", "\n">>
ErrHeader == <<"\n", "E", "r", "r", "o", "r", " ", "r", "e", "p", "o", "r", "t", ":", "\n">>

----------------------------------------------------------------------------
(* Inputs *)

EmptyStr == <<>>
ExampleLine == <<"-", "-", "s", "t", "r", "i", "c", "t", " ", "e", "x", "t", "r", "a">>
ExampleCell == <<"x", " ", "=", " ", "1">>
OkSummary == <<"o", "k", " ", "s", "u", "m", "m", "a", "r", "y">>
ErrText == <<"b", "o", "o", "m">>

\* characters Python's str.split() treats as separators (str.isspace)
Whitespace == {" ", "\t", "\n", "\r", "\f"}
\* alphabet of the enumerated lines: two separators, two token characters
Chars == {" ", "\t", "a", "b"}

SeqsUpTo(S, n) == UNION {[1..k -> S] : k \in 0..n}

Lines == SeqsUpTo(Chars, MaxLineLen) \cup {ExampleLine}
Cells == {EmptyStr, ExampleCell, <<" ", "a", "\t">>}
\* what mypy.api.run may return: (stdout, stderr, exit status)
RunOuts == {EmptyStr, OkSummary}
RunErrs == {EmptyStr, ErrText}
RunStatuses == {0, 1, 2}

----------------------------------------------------------------------------
(* Python semantics used by typechecker *)

\* truth value of a str: non-empty
Truthy(s) == Len(s) > 0

RECURSIVE SkipWs(_, _)
SkipWs(s, i) == IF i <= Len(s) /\ s[i] \in Whitespace THEN SkipWs(s, i + 1) ELSE i

RECURSIVE SkipNonWs(_, _)
SkipNonWs(s, i) == IF i <= Len(s) /\ s[i] \notin Whitespace THEN SkipNonWs(s, i + 1) ELSE i

RECURSIVE SplitFrom(_, _)
SplitFrom(s, i) ==
    LET j == SkipWs(s, i) IN
    IF j > Len(s) THEN <<>>
    ELSE LET k == SkipNonWs(s, j) IN <<SubSeq(s, j, k - 1)>> \o SplitFrom(s, k)

\* split on every single separator character, keeping empty fields: s.split(' ')
RECURSIVE SplitEach(_, _, _)
SplitEach(s, i, cur) ==
    IF i > Len(s) THEN <<cur>>
    ELSE IF s[i] \in Whitespace THEN <<cur>> \o SplitEach(s, i + 1, <<>>)
    ELSE SplitEach(s, i + 1, Append(cur, s[i]))

splitOnEachSeparator(s) == SplitEach(s, 1, <<>>)

\* line.split(): the maximal runs of non-whitespace characters, left to right
split(s) == SplitFrom(s, 1)

\* the cell is placed after the option tokens
RunArgsCellLast(c, a) == <<Flag>> \o a \o <<c>>

\* ['-c', cell, *args]
RunArgs(c, a) == <<Flag, c>> \o a

\* the except clause falls through instead of returning
AfterImportErrorFallsThrough == "L16"

\* statement reached after the except clause's `return`
AfterImportError == "done"

\* the error section is printed on a non-zero exit status
ErrCondOnStatus(r) == r[3] # 0

\* `if result[0]:` and `if result[1]:`
OutCond(r) == Truthy(r[1])
ErrCond(r) == Truthy(r[2])

\* the report text is printed where its header belongs
PrintedAt23Text(r) == r[1]

\* arguments of the four print calls
PrintedAt23(r) == InfoHeader
PrintedAt24(r) == r[1]
PrintedAt27(r) == ErrHeader
PrintedAt28(r) == r[2]

\* the captured stdout is returned instead of the exit status
ReturnOfStdout(r) == [kind |-> "str", val |-> r[1]]

\* `return result[2]`
ReturnOf(r) == [kind |-> "int", val |-> r[3]]

NoReturn == [kind |-> "none", val |-> <<>>]

----------------------------------------------------------------------------
(* mypycheck.py: typechecker(line, cell), statement by statement *)

\* the notebook runs a %%mypy cell: a fresh invocation
Invoke ==
    /\ pc \in {"idle", "done", "raised"}
    /\ \E l \in Lines, c \in Cells :
        /\ line' = l
        /\ cell' = c
    /\ pc' = "L12"
    /\ imported' = "pending"
    /\ importAttempts' = 0
    /\ args' = <<>>
    /\ argsBound' = FALSE
    /\ runCalls' = <<>>
    /\ result' = <<>>
    /\ stdout' = <<>>
    /\ ret' = NoReturn
    /\ UNCHANGED demoVars

\* line 12: the import succeeds
ImportOk ==
    /\ pc = "L12"
    /\ imported' = "ok"
    /\ importAttempts' = importAttempts + 1
    /\ pc' = "L16"
    /\ UNCHANGED <<line, cell, args, argsBound, runCalls, result, stdout, ret>>
    /\ UNCHANGED demoVars

\* lines 12-14: the import raises ImportError, the handler returns the message
ImportFails ==
    /\ pc = "L12"
    /\ imported' = "ImportError"
    /\ importAttempts' = importAttempts + 1
    /\ ret' = [kind |-> "str", val |-> MissingMsg]
    /\ pc' = AfterImportError
    /\ UNCHANGED <<line, cell, args, argsBound, runCalls, result, stdout>>
    /\ UNCHANGED demoVars

\* line 16: args = []
InitArgs ==
    /\ pc = "L16"
    /\ args' = <<>>
    /\ argsBound' = TRUE
    /\ pc' = "L17"
    /\ UNCHANGED <<line, cell, imported, importAttempts, runCalls, result, stdout, ret>>
    /\ UNCHANGED demoVars

\* line 17: if line:
TestLine ==
    /\ pc = "L17"
    /\ pc' = IF Truthy(line) THEN "L18" ELSE "L20"
    /\ UNCHANGED <<line, cell, imported, importAttempts, args, argsBound, runCalls,
                   result, stdout, ret>>
    /\ UNCHANGED demoVars

\* line 18: args = line.split()
SplitLine ==
    /\ pc = "L18"
    /\ args' = split(line)
    /\ pc' = "L20"
    /\ UNCHANGED <<line, cell, imported, importAttempts, argsBound, runCalls,
                   result, stdout, ret>>
    /\ UNCHANGED demoVars

\* line 20: result = run(['-c', cell, *args]); run returns its 3-tuple
CallRun ==
    /\ pc = "L20"
    /\ runCalls' = Append(runCalls, RunArgs(cell, args))
    /\ \E o \in RunOuts, e \in RunErrs, s \in RunStatuses : result' = <<o, e, s>>
    /\ pc' = "L22"
    /\ UNCHANGED <<line, cell, imported, importAttempts, args, argsBound, stdout, ret>>
    /\ UNCHANGED demoVars

\* line 20: run raises; nothing catches it, the invocation ends with the exception
RunRaises ==
    /\ pc = "L20"
    /\ runCalls' = Append(runCalls, RunArgs(cell, args))
    /\ pc' = "raised"
    /\ UNCHANGED <<line, cell, imported, importAttempts, args, argsBound, result,
                   stdout, ret>>
    /\ UNCHANGED demoVars

\* line 22: if result[0]:
TestOut ==
    /\ pc = "L22"
    /\ pc' = IF OutCond(result) THEN "L23" ELSE "L26"
    /\ UNCHANGED <<line, cell, imported, importAttempts, args, argsBound, runCalls,
                   result, stdout, ret>>
    /\ UNCHANGED demoVars

\* line 23: print('\nType checking report:\n')
PrintInfoHeader ==
    /\ pc = "L23"
    /\ stdout' = Append(stdout, PrintedAt23(result))
    /\ pc' = "L24"
    /\ UNCHANGED <<line, cell, imported, importAttempts, args, argsBound, runCalls,
                   result, ret>>
    /\ UNCHANGED demoVars

\* line 24: print(result[0])
PrintInfoText ==
    /\ pc = "L24"
    /\ stdout' = Append(stdout, PrintedAt24(result))
    /\ pc' = "L26"
    /\ UNCHANGED <<line, cell, imported, importAttempts, args, argsBound, runCalls,
                   result, ret>>
    /\ UNCHANGED demoVars

\* line 26: if result[1]:
TestErr ==
    /\ pc = "L26"
    /\ pc' = IF ErrCond(result) THEN "L27" ELSE "L31"
    /\ UNCHANGED <<line, cell, imported, importAttempts, args, argsBound, runCalls,
                   result, stdout, ret>>
    /\ UNCHANGED demoVars

\* line 27: print('\nError report:\n')
PrintErrHeader ==
    /\ pc = "L27"
    /\ stdout' = Append(stdout, PrintedAt27(result))
    /\ pc' = "L28"
    /\ UNCHANGED <<line, cell, imported, importAttempts, args, argsBound, runCalls,
                   result, ret>>
    /\ UNCHANGED demoVars

\* line 28: print(result[1])
PrintErrText ==
    /\ pc = "L28"
    /\ stdout' = Append(stdout, PrintedAt28(result))
    /\ pc' = "L31"
    /\ UNCHANGED <<line, cell, imported, importAttempts, args, argsBound, runCalls,
                   result, ret>>
    /\ UNCHANGED demoVars

\* line 31: return result[2]
Return ==
    /\ pc = "L31"
    /\ ret' = ReturnOf(result)
    /\ pc' = "done"
    /\ UNCHANGED <<line, cell, imported, importAttempts, args, argsBound, runCalls,
                   result, stdout>>
    /\ UNCHANGED demoVars

----------------------------------------------------------------------------
(* mytuples.py: Python semantics used by the script *)

\* tuple(iterable): a new tuple holding the iterable's items in iteration order
tuple(it) == [i \in 1..Len(it) |-> it[i]]

\* the last two items are exchanged
my_tuple0_swapped(a, b, c) == tuple(<<a, c, b>>)

\* lines 9-10: def my_tuple0(a: int, b: int, c:int) -> tuple: return tuple((a, b, c))
my_tuple0(a, b, c) == tuple(<<a, b, c>>)

\* the items come out in reverse order
my_tuple0_redef_reversed(a, b, c) == tuple(<<c, b, a>>)

\* lines 19-20: the second, textually identical definition
my_tuple0_redef(a, b, c) == tuple(<<a, b, c>>)

\* the return annotation is left out of the map
AnnotationsWithoutReturn(params, returns) == params

\* __annotations__ built by a def statement: the annotated parameters in
\* declaration order, then "return"
Annotations(params, returns) == params \o << <<"return", returns>> >>

\* the annotated parameters and the return annotation of lines 9 and 19
Params9 == << <<"a", "int">>, <<"b", "int">>, <<"c", "int">> >>
Returns9 == "tuple"
Params19 == << <<"a", "int">>, <<"b", "int">>, <<"c", "int">> >>
Returns19 == "tuple"

\* arguments of the calls at lines 13 and 23
ScriptArgs == <<4, 7, -5>>

\* first arguments of the print calls
TupleLabel == "A tuple of int: "
AnnotLabel == "Type annotations of my_tuple function: \n"

\* calling the function object bound to my_tuple0 runs the body of the
\* definition that created it
CallFn(f, a, b, c) == IF f.block = 1 THEN my_tuple0(a, b, c) ELSE my_tuple0_redef(a, b, c)

Ints == (0 - MaxInt)..MaxInt

----------------------------------------------------------------------------
(* mytuples.py, statement by statement *)

\* lines 9-10: the def statement binds my_tuple0
Def1 ==
    /\ spc = "L9"
    /\ fn' = [defined |-> TRUE, annotations |-> Annotations(Params9, Returns9), block |-> 1]
    /\ spc' = "L13"
    /\ UNCHANGED <<t47_5, scriptOut, applied>>
    /\ UNCHANGED magicVars

\* line 13: t47_5 = my_tuple0(4, 7, -5)
Call1 ==
    /\ spc = "L13"
    /\ t47_5' = CallFn(fn, ScriptArgs[1], ScriptArgs[2], ScriptArgs[3])
    /\ spc' = "L14"
    /\ UNCHANGED <<fn, scriptOut, applied>>
    /\ UNCHANGED magicVars

\* line 14: print('A tuple of int: ', t47_5)
Print14 ==
    /\ spc = "L14"
    /\ scriptOut' = Append(scriptOut, <<TupleLabel, t47_5>>)
    /\ spc' = "L15"
    /\ UNCHANGED <<fn, t47_5, applied>>
    /\ UNCHANGED magicVars

\* line 15: print('Type annotations of my_tuple function: \n', my_tuple0.__annotations__)
Print15 ==
    /\ spc = "L15"
    /\ scriptOut' = Append(scriptOut, <<AnnotLabel, fn.annotations>>)
    /\ spc' = "L19"
    /\ UNCHANGED <<fn, t47_5, applied>>
    /\ UNCHANGED magicVars

\* lines 19-20: the second def statement rebinds my_tuple0
Def2 ==
    /\ spc = "L19"
    /\ fn' = [defined |-> TRUE, annotations |-> Annotations(Params19, Returns19), block |-> 2]
    /\ spc' = "L23"
    /\ UNCHANGED <<t47_5, scriptOut, applied>>
    /\ UNCHANGED magicVars

\* line 23: t47_5 = my_tuple0(4, 7, -5)
Call2 ==
    /\ spc = "L23"
    /\ t47_5' = CallFn(fn, ScriptArgs[1], ScriptArgs[2], ScriptArgs[3])
    /\ spc' = "L24"
    /\ UNCHANGED <<fn, scriptOut, applied>>
    /\ UNCHANGED magicVars

\* line 24: print('A tuple of int: ', t47_5)
Print24 ==
    /\ spc = "L24"
    /\ scriptOut' = Append(scriptOut, <<TupleLabel, t47_5>>)
    /\ spc' = "L25"
    /\ UNCHANGED <<fn, t47_5, applied>>
    /\ UNCHANGED magicVars

\* line 25: print('Type annotations of my_tuple function: \n', my_tuple0.__annotations__)
Print25 ==
    /\ spc = "L25"
    /\ scriptOut' = Append(scriptOut, <<AnnotLabel, fn.annotations>>)
    /\ spc' = "end"
    /\ UNCHANGED <<fn, t47_5, applied>>
    /\ UNCHANGED magicVars

\* my_tuple0 applied to arbitrary integers, wherever the name is bound
Apply ==
    /\ fn.defined
    /\ \E a \in Ints, b \in Ints, c \in Ints :
        applied' = [called |-> TRUE, argv |-> <<a, b, c>>,
                    value |-> CallFn(fn, a, b, c), block |-> fn.block]
    /\ UNCHANGED <<spc, fn, t47_5, scriptOut>>
    /\ UNCHANGED magicVars

----------------------------------------------------------------------------
(* State after loading both files' definitions, before anything runs *)

NoFunction == [defined |-> FALSE, annotations |-> <<>>, block |-> 0]
NotApplied == [called |-> FALSE, argv |-> <<>>, value |-> <<>>, block |-> 0]

Init ==
    /\ pc = "idle"
    /\ line = EmptyStr
    /\ cell = EmptyStr
    /\ imported = "pending"
    /\ importAttempts = 0
    /\ args = <<>>
    /\ argsBound = FALSE
    /\ runCalls = <<>>
    /\ result = <<>>
    /\ stdout = <<>>
    /\ ret = NoReturn
    /\ spc = "L9"
    /\ fn = NoFunction
    /\ t47_5 = <<>>
    /\ scriptOut = <<>>
    /\ applied = NotApplied

Next ==
    \/ Invoke
    \/ ImportOk
    \/ ImportFails
    \/ InitArgs
    \/ TestLine
    \/ SplitLine
    \/ CallRun
    \/ RunRaises
    \/ TestOut
    \/ PrintInfoHeader
    \/ PrintInfoText
    \/ TestErr
    \/ PrintErrHeader
    \/ PrintErrText
    \/ Return

Spec == Init /\ [][Next]_vars

DemoNext ==
    \/ Def1
    \/ Call1
    \/ Print14
    \/ Print15
    \/ Def2
    \/ Call2
    \/ Print24
    \/ Print25
    \/ Apply

DemoSpec == Init /\ [][DemoNext]_vars

----------------------------------------------------------------------------
(* Vocabulary of the properties *)

Mypy == <<"m", "y", "p", "y">>
PipInstallMypy == <<"p", "i", "p", " ", "i", "n", "s", "t", "a", "l", "l", " ", "m", "y", "p", "y">>
Strict == <<"-", "-", "s", "t", "r", "i", "c", "t">>
Extra == <<"e", "x", "t", "r", "a">>

\* sub occurs in s as a contiguous substring
Contains(s, sub) ==
    \E i \in 1..(Len(s) - Len(sub) + 1) : SubSeq(s, i, i + Len(sub) - 1) = sub

IsPrefix(p, s) == Len(p) <= Len(s) /\ SubSeq(s, 1, Len(p)) = p

\* positions where a maximal run of non-whitespace characters starts
RunStarts(l) ==
    {i \in 1..Len(l) : l[i] \notin Whitespace /\ (i = 1 \/ l[i - 1] \in Whitespace)}

\* last position of the run that starts at i
RunEnd(l, i) ==
    CHOOSE j \in i..Len(l) :
        /\ \A k \in i..j : l[k] \notin Whitespace
        /\ (j = Len(l) \/ l[j + 1] \in Whitespace)

\* start of the k-th run from the left
KthStart(l, k) ==
    CHOOSE i \in RunStarts(l) : Cardinality({j \in RunStarts(l) : j < i}) = k - 1

\* the whitespace-separated tokens of l, in their original order
TokensOf(l) ==
    [k \in 1..Cardinality(RunStarts(l)) |->
        SubSeq(l, KthStart(l, k), RunEnd(l, KthStart(l, k)))]

\* the statements of typechecker after the call of run has returned
AfterCall == {"L22", "L23", "L24", "L26", "L27", "L28", "L31", "done"}

\* the report sections typechecker prints for a result of run
InfoSection(r) == IF r[1] # EmptyStr THEN <<InfoHeader, r[1]>> ELSE <<>>
ErrSection(r) == IF r[2] # EmptyStr THEN <<ErrHeader, r[2]>> ELSE <<>>
Report(r) == InfoSection(r) \o ErrSection(r)

\* keys of an annotation map, and the value under a key
Keys(ann) == {ann[i][1] : i \in DOMAIN ann}
ValueAt(ann, k) == ann[CHOOSE i \in DOMAIN ann : ann[i][1] = k][2]

----------------------------------------------------------------------------
(* Properties of mypycheck.py, checked under Spec *)

\* C1: when the import of the capability fails, typechecker has returned (it
\* did not raise) a str that contains "mypy" and "pip install mypy", whatever
\* line and cell are, and has printed nothing.
C1_UnavailableReturnsInstallHint ==
    imported = "ImportError" =>
        /\ pc = "done"
        /\ ret.kind = "str"
        /\ Contains(ret.val, Mypy)
        /\ Contains(ret.val, PipInstallMypy)
        /\ stdout = <<>>

C1_Witness ==
    /\ imported = "ImportError"
    /\ pc = "done"
    /\ line = ExampleLine
    /\ cell = ExampleCell

\* C2: with the capability available, once line 20 has run the capability was
\* called with ["-c", cell, t1, ..., tn], t1..tn the whitespace-separated
\* tokens of line in their original order and cell unmodified in second place;
\* for line "--strict extra" and cell "x = 1" that is
\* ["-c", "x = 1", "--strict", "extra"].
C2_RunArguments ==
    /\ \A i \in DOMAIN runCalls : runCalls[i] = <<Flag, cell>> \o TokensOf(line)
    /\ (imported = "ok" /\ pc \in AfterCall \cup {"raised"}) => Len(runCalls) = 1
    /\ (Len(runCalls) = 1 /\ line = ExampleLine /\ cell = ExampleCell) =>
            runCalls[1] = <<Flag, ExampleCell, Strict, Extra>>

C2_Witness ==
    /\ Len(runCalls) = 1
    /\ line = ExampleLine
    /\ cell = ExampleCell
    /\ pc = "L22"

\* C3: when the capability returned (out, err, status), typechecker returns
\* exactly status, an integer, whatever out and err are; never the report text.
C3_ReturnsStatus ==
    (pc = "done" /\ imported = "ok") =>
        /\ ret.kind = "int"
        /\ ret.val = result[3]
        /\ ret.val \in RunStatuses

C3_Witness ==
    /\ pc = "done"
    /\ result = <<OkSummary, EmptyStr, 1>>
    /\ ret = [kind |-> "int", val |-> 1]

\* C4: when the capability returned (out, err, status), by the time of the
\* return the informational section (header, out) has been printed iff out is
\* non-empty and the error section (header, err) iff err is non-empty, each
\* independent of the other and of status.
C4_SectionsIffNonEmpty ==
    (pc \in {"L31", "done"} /\ imported = "ok") =>
        /\ stdout = Report(result)
        /\ (result[1] = EmptyStr /\ result[2] = EmptyStr) => stdout = <<>>
        /\ (result[2] = EmptyStr) => \A i \in DOMAIN stdout : stdout[i] # ErrHeader
        /\ (result[1] = EmptyStr) => \A i \in DOMAIN stdout : stdout[i] # InfoHeader

C4_Witness ==
    /\ pc = "done"
    /\ result = <<OkSummary, EmptyStr, 1>>
    /\ stdout = <<InfoHeader, OkSummary>>

\* C8: in one invocation the import statement runs at most once and the
\* capability is called at most once: exactly once when the import succeeded
\* and the invocation has ended, never when the import failed; after a failed
\* import no argument is assigned or split, nothing is printed and the
\* invocation is over.
C8_OneAttemptNoRetry ==
    /\ importAttempts <= 1
    /\ Len(runCalls) <= 1
    /\ imported = "ImportError" =>
            /\ importAttempts = 1
            /\ runCalls = <<>>
            /\ ~argsBound
            /\ args = <<>>
            /\ stdout = <<>>
            /\ pc = "done"
    /\ (imported = "ok" /\ pc \in {"done", "raised"}) =>
            /\ importAttempts = 1
            /\ Len(runCalls) = 1

C8_Witness ==
    /\ imported = "ImportError"
    /\ pc = "done"
    /\ line = <<"a", " ", "b">>
    /\ runCalls = <<>>

\* C9: nothing is printed before the capability call has completed; what has
\* been printed is always an initial part of: informational header,
\* informational text, error header, error text (absent sections left out);
\* and the exit status is returned only after all of it has been printed.
C9_EventOrder ==
    /\ (result = <<>>) => stdout = <<>>
    /\ (stdout # <<>>) => Len(runCalls) = 1
    /\ (result # <<>>) => IsPrefix(stdout, Report(result))
    /\ (ret.kind = "int") => (result # <<>> /\ stdout = Report(result))
    /\ (pc \in {"L22", "L23"}) => stdout = <<>>
    /\ (pc = "L24") => stdout = <<InfoHeader>>
    /\ (pc \in {"L26", "L27"}) => stdout = InfoSection(result)
    /\ (pc = "L28") => stdout = InfoSection(result) \o <<ErrHeader>>

C9_Witness ==
    /\ pc = "L28"
    /\ stdout = <<InfoHeader, OkSummary, ErrHeader>>
    /\ ret = NoReturn

\* C10: no empty option token reaches the capability: the argument list has
\* 2 + (number of maximal non-whitespace runs of line) elements, none of the
\* option tokens is empty or contains whitespace, and a line made only of
\* whitespace gives ["-c", cell], as the empty line does.
C10_NoEmptyToken ==
    \A i \in DOMAIN runCalls :
        /\ Len(runCalls[i]) = 2 + Cardinality(RunStarts(line))
        /\ \A k \in 3..Len(runCalls[i]) :
                /\ runCalls[i][k] # EmptyStr
                /\ \A j \in DOMAIN runCalls[i][k] : runCalls[i][k][j] \notin Whitespace
        /\ (\A j \in DOMAIN line : line[j] \in Whitespace) => runCalls[i] = <<Flag, cell>>

C10_Witness ==
    /\ Len(runCalls) = 1
    /\ line = <<" ", "\t", " ">>
    /\ runCalls[1] = <<Flag, cell>>

----------------------------------------------------------------------------
(* Properties of mytuples.py, checked under DemoSpec *)

\* C5: for all integers a, b, c, negative and repeated ones included, a call
\* of my_tuple0 (either definition) gives a sequence of length exactly 3 whose
\* elements are a, b, c in that order.
C5_TripleInOrder ==
    /\ applied.called =>
            /\ Len(applied.value) = 3
            /\ applied.value[1] = applied.argv[1]
            /\ applied.value[2] = applied.argv[2]
            /\ applied.value[3] = applied.argv[3]
    /\ fn.defined => \A a \in Ints, b \in Ints, c \in Ints : CallFn(fn, a, b, c) = <<a, b, c>>

C5_Witness ==
    /\ applied.called
    /\ applied.block = 1
    /\ applied.argv = <<0 - 2, 3, 3>>
    /\ applied.value = <<0 - 2, 3, 3>>

\* C6: wherever my_tuple0 is bound, also after the second definition has
\* replaced the first and after calls of the function, its annotation map has
\* exactly the keys a, b, c, return, with values int, int, int, tuple.
C6_AnnotationMap ==
    fn.defined =>
        /\ Keys(fn.annotations) = {"a", "b", "c", "return"}
        /\ Len(fn.annotations) = 4
        /\ ValueAt(fn.annotations, "a") = "int"
        /\ ValueAt(fn.annotations, "b") = "int"
        /\ ValueAt(fn.annotations, "c") = "int"
        /\ ValueAt(fn.annotations, "return") = "tuple"

C6_Witness ==
    /\ fn.defined
    /\ fn.block = 2
    /\ applied.called
    /\ applied.block = 2

\* C7: the script prints exactly four times, in the order sequence line for
\* (4, 7, -5), metadata line, sequence line, metadata line, and the second
\* pair equals the first pair.
C7_FourPrintsTwoEqualPairs ==
    /\ Len(scriptOut) <= 4
    /\ (spc \in {"L9", "L13", "L14"}) => Len(scriptOut) = 0
    /\ (spc = "L15") => Len(scriptOut) = 1
    /\ (spc \in {"L19", "L23", "L24"}) => Len(scriptOut) = 2
    /\ (spc = "L25") => Len(scriptOut) = 3
    /\ (spc = "end") => Len(scriptOut) = 4
    /\ \A i \in DOMAIN scriptOut :
            /\ (i \in {1, 3}) => scriptOut[i] = <<TupleLabel, <<4, 7, 0 - 5>> >>
            /\ (i \in {2, 4}) => scriptOut[i][1] = AnnotLabel
    /\ (Len(scriptOut) >= 3) => scriptOut[3] = scriptOut[1]
    /\ (Len(scriptOut) = 4) => scriptOut[4] = scriptOut[2]

C7_Witness ==
    /\ spc = "end"
    /\ Len(scriptOut) = 4
    /\ t47_5 = <<4, 7, 0 - 5>>

====
